---- MODULE Spec2Model ----
(***************************************************************************)
(* Model of the Opra text-to-speech core:                                  *)
(*   - TextToSpeech::Impl      (shared/src/TextToSpeech.cpp), the playback *)
(*     controller driven by control calls and by speech-backend events;    *)
(*   - PDFTextExtractor::Impl  (shared/src/PDFTextExtractor.cpp), the page *)
(*     range extraction, the word chunker and the text cleaner.            *)
(* A std::string is a sequence of byte codes (32 = ' ', 10 = '\n',         *)
(* 36 = '$', 97 = 'a', ...), so the character classes of the regular       *)
(* expressions are sets of numbers.                                        *)
(***************************************************************************)
EXTENDS Integers, Sequences, FiniteSets, TLC

VARIABLES
    platform,          \* which #ifdef branch the build took
    state,             \* Impl::state
    chunks,            \* Impl::chunks
    currentChunk,      \* Impl::currentChunk
    isChunked,         \* Impl::isChunked
    progress,          \* Impl::progress (percent)
    currentWordIndex,  \* Impl::currentWordIndex
    totalWords,        \* Impl::totalWords
    pending,           \* utterances the backend accepted and has not finished
    last,              \* the last operation: name, return value, backend calls, callbacks fired
    run,               \* progress of a speakChunked(chunks, 0) + finished-events run
    session,           \* the chunk indexes handed to the backend in the chunked session
    chText,            \* chunkText: argument text
    chSize,            \* chunkText: argument chunkSize
    chOut,             \* chunkText: returned vector
    chDone,            \* chunkText has returned
    exDoc,             \* the document behind the path given to the extractor
    ex,                \* the extractor call: arguments, outcome, backend calls
    cl,                \* the cleanTextForTTS call: argument and outcome
    settings,          \* Impl::settings
    race               \* stop() and onSpeechFinished() running on two threads

ttsVars == <<platform, state, chunks, currentChunk, isChunked, progress,
             currentWordIndex, totalWords, pending, last, run, session>>
chunkVars == <<chText, chSize, chOut, chDone>>
extractVars == <<exDoc, ex, cl>>
auxVars == <<settings, race>>
vars == <<platform, state, chunks, currentChunk, isChunked, progress,
          currentWordIndex, totalWords, pending, last, run, session,
          chText, chSize, chOut, chDone, exDoc, ex, cl, settings, race>>

----------------------------------------------------------------------------
(* Bounds of the model *)

MaxChunks == 2

MaxPending == 2

MaxInputLen == 6

MaxChunkSize == 3

MaxPages == 2

MaxCleanLen == 3

----------------------------------------------------------------------------
(* Strings *)

\* the bytes chunkText() is tried with: 'a', 'b', ' ' and '\n'
ChunkAlphabet == {97, 98, 32, 10}

StringsOver(alphabet, n) == UNION {[1..k -> alphabet] : k \in 0..n}

\* the texts speak() is tried with: "", "a", " ", "\n", "\x01", "$", "\n\n",
\* "\x01 " and " a "
SpeakTexts == {<<>>, <<97>>, <<32>>, <<10>>, <<1>>, <<36>>, <<10, 10>>,
               <<1, 32>>, <<32, 97, 32>>}

\* the chunk texts speakChunked() is tried with: "a" (speakable) and " "
\* (empty once cleaned)
ChunkPool == {<<97>>, <<32>>}

ChunkSeqs == UNION {[1..k -> ChunkPool] : k \in 0..MaxChunks}

\* isspace() in the "C" locale, which is also what \s matches
IsSpace(c) == c \in {9, 10, 11, 12, 13, 32}

\* the class [\x00-\x08\x0B\x0C\x0E-\x1F\x7F]
IsControl(c) == c \in (0..8) \cup {11, 12} \cup (14..31) \cup {127}

\* the conversion of an int to std::size_t in a mixed comparison; the
\* modulus stands for 2^64, every length of the model is far below it
SizeTModulus == 2^30

ToSizeT(i) == i % SizeTModulus

----------------------------------------------------------------------------
(* TextToSpeech::Impl text cleaning *)

RemoveControl(text) == SelectSeq(text, LAMBDA c : ~IsControl(c))

RECURSIVE SpacePrefixLen(_)
SpacePrefixLen(s) ==
    IF s = <<>> \/ ~IsSpace(Head(s)) THEN 0 ELSE 1 + SpacePrefixLen(Tail(s))

\* regex_replace(cleaned, regex("\s{2,}"), " ")
RECURSIVE CollapseSpaces(_)
CollapseSpaces(s) ==
    IF s = <<>> THEN <<>>
    ELSE LET n == SpacePrefixLen(s) IN
         IF n >= 2 THEN <<32>> \o CollapseSpaces(SubSeq(s, n + 1, Len(s)))
         ELSE <<Head(s)>> \o CollapseSpaces(Tail(s))

trim(str) ==
    LET notBlank == {i \in 1..Len(str) : str[i] # 32} IN
    IF notBlank = {} THEN <<>>
    ELSE LET first == CHOOSE i \in notBlank : \A j \in notBlank : i <= j
             lastIx == CHOOSE i \in notBlank : \A j \in notBlank : i >= j
         IN SubSeq(str, first, lastIx)

TTS_cleanTextForTTS(text) == trim(CollapseSpaces(RemoveControl(text)))

----------------------------------------------------------------------------
(* TextToSpeech::Impl *)

Platforms == {"macOS", "Windows", "none"}

NoCalls == <<>>

NoneFired == <<>>

BackendCall(name, text) == [call |-> name, text |-> text]

Fired(name, args) == [cb |-> name, args |-> args]

\* "if (callback) callback(...)": the callback members are taken to hold a
\* callable, so every notification reaches the caller
Notify(name, args) == <<Fired(name, args)>>

\* what the backend may answer to Speak: AVSpeechSynthesizer always takes the
\* utterance, SAPI may fail
AcceptChoices == IF platform = "Windows" THEN BOOLEAN ELSE {TRUE}

Rejected(st) == [ret |-> FALSE, calls |-> NoCalls, fired |-> NoneFired, state |-> st]

speakBackend_StartsOnReject(cleanedText, accept, st) ==
    IF platform = "none" THEN Rejected(st)
    ELSE [ret |-> accept, calls |-> <<BackendCall("speak", cleanedText)>>,
          fired |-> IF accept THEN Notify("started", <<>>) ELSE NoneFired,
          state |-> "Speaking"]

\* speakMacOS / speakWindows; onSpeechStarted runs inside them on acceptance
speakBackend(cleanedText, accept, st) ==
    IF platform = "none" THEN Rejected(st)
    ELSE IF accept
         THEN [ret |-> TRUE, calls |-> <<BackendCall("speak", cleanedText)>>,
               fired |-> Notify("started", <<>>), state |-> "Speaking"]
         ELSE [ret |-> FALSE, calls |-> <<BackendCall("speak", cleanedText)>>,
               fired |-> NoneFired, state |-> st]

speakResult_HandsRawText(text, accept, st) ==
    IF text = <<>> THEN Rejected(st)
    ELSE speakBackend(text, accept, st)

speakResult(text, accept, st) ==
    IF text = <<>> THEN Rejected(st)
    ELSE LET cleanedText == TTS_cleanTextForTTS(text) IN
         IF cleanedText = <<>> THEN Rejected(st)
         ELSE speakBackend(cleanedText, accept, st)

speakCurrentChunk(chs, cur, chunked, accept, st) ==
    IF chunked /\ ToSizeT(cur) < Len(chs)
    THEN speakResult(chs[cur + 1], accept, st)
    ELSE Rejected(st)

RetOf(b) == IF b THEN "true" ELSE "false"

Accepted(r) == IF r.ret THEN 1 ELSE 0

NoRun == [n |-> 0, ev |-> 0, fin |-> 0, adv |-> 0]

\* SpeechSettings as initialized by the struct: rate 0.5, pitch 1.0 and
\* volume 1.0 (in percent), no voice
DefaultSettings == [rate |-> 50, pitch |-> 100, volume |-> 100, voiceId |-> ""]

\* no thread is inside stop() or onSpeechFinished()
NoRace == [stop |-> "idle", fin |-> "idle", text |-> <<>>, late |-> FALSE]

\* no chunked session that began on an idle backend is under way
NoSession == [on |-> FALSE, start |-> 0, sub |-> <<>>]

\* the session with one more index when the chunk was handed to the backend
Submitted(s, r, index) ==
    IF s.on /\ r.calls # NoCalls THEN [s EXCEPT !.sub = Append(@, index)] ELSE s

speak(text) ==
    /\ pending < MaxPending
    /\ \E accept \in AcceptChoices :
         LET r == speakResult(text, accept, state) IN
         /\ state' = r.state
         /\ pending' = pending + Accepted(r)
         /\ last' = [op |-> "speak", ret |-> RetOf(r.ret), calls |-> r.calls, fired |-> r.fired]
    /\ run' = NoRun
    /\ session' = NoSession
    /\ UNCHANGED <<platform, chunks, currentChunk, isChunked, progress,
                   currentWordIndex, totalWords>>
    /\ UNCHANGED chunkVars
    /\ UNCHANGED extractVars
    /\ UNCHANGED auxVars

StartChunkInvalid_Signed(chs, startChunk) == chs = <<>> \/ startChunk >= Len(chs)

StartChunkInvalid(chs, startChunk) == chs = <<>> \/ ToSizeT(startChunk) >= Len(chs)

\* a run of the scenario "speakChunked(chunks, 0), then one finished event per
\* chunk" starts when the call succeeded and every chunk is speakable
StartsRun(chs, startChunk, r) ==
    /\ startChunk = 0
    /\ r.ret
    /\ \A i \in 1..Len(chs) : TTS_cleanTextForTTS(chs[i]) # <<>>

speakChunked(chs, startChunk) ==
    /\ pending < MaxPending
    /\ IF StartChunkInvalid(chs, startChunk)
       THEN /\ last' = [op |-> "speakChunked", ret |-> "false", calls |-> NoCalls, fired |-> NoneFired]
            /\ run' = NoRun
            /\ session' = NoSession
            /\ UNCHANGED <<state, chunks, currentChunk, isChunked, pending>>
       ELSE \E accept \in AcceptChoices :
              LET r == speakCurrentChunk(chs, startChunk, TRUE, accept, state) IN
              /\ chunks' = chs
              /\ currentChunk' = startChunk
              /\ isChunked' = TRUE
              /\ state' = r.state
              /\ pending' = pending + Accepted(r)
              /\ last' = [op |-> "speakChunked", ret |-> RetOf(r.ret), calls |-> r.calls, fired |-> r.fired]
              /\ run' = IF StartsRun(chs, startChunk, r)
                        THEN [n |-> Len(chs), ev |-> 0, fin |-> 0, adv |-> 0]
                        ELSE NoRun
              /\ session' = IF pending = 0
                            THEN Submitted([on |-> TRUE, start |-> startChunk, sub |-> <<>>],
                                           r, startChunk)
                            ELSE NoSession
    /\ UNCHANGED <<platform, progress, currentWordIndex, totalWords>>
    /\ UNCHANGED chunkVars
    /\ UNCHANGED extractVars
    /\ UNCHANGED auxVars

pause_Result_AnyActive(st) ==
    IF st # "Stopped"
    THEN [state |-> "Paused",
          calls |-> IF platform = "none" THEN NoCalls ELSE <<BackendCall("pause", <<>>)>>,
          fired |-> Notify("paused", <<>>)]
    ELSE [state |-> st, calls |-> NoCalls, fired |-> NoneFired]

pause_Result(st) ==
    IF st = "Speaking"
    THEN [state |-> "Paused",
          calls |-> IF platform = "none" THEN NoCalls ELSE <<BackendCall("pause", <<>>)>>,
          fired |-> Notify("paused", <<>>)]
    ELSE [state |-> st, calls |-> NoCalls, fired |-> NoneFired]

pause ==
    /\ LET r == pause_Result(state) IN
         /\ state' = r.state
         /\ last' = [op |-> "pause", ret |-> "void", calls |-> r.calls, fired |-> r.fired]
    /\ run' = NoRun
    /\ UNCHANGED session
    /\ UNCHANGED <<platform, chunks, currentChunk, isChunked, progress,
                   currentWordIndex, totalWords, pending>>
    /\ UNCHANGED chunkVars
    /\ UNCHANGED extractVars
    /\ UNCHANGED auxVars

resume_Result_KeepsPaused(st) ==
    IF st = "Paused"
    THEN [state |-> "Paused",
          calls |-> IF platform = "none" THEN NoCalls ELSE <<BackendCall("resume", <<>>)>>,
          fired |-> Notify("resumed", <<>>)]
    ELSE [state |-> st, calls |-> NoCalls, fired |-> NoneFired]

resume_Result(st) ==
    IF st = "Paused"
    THEN [state |-> "Speaking",
          calls |-> IF platform = "none" THEN NoCalls ELSE <<BackendCall("resume", <<>>)>>,
          fired |-> Notify("resumed", <<>>)]
    ELSE [state |-> st, calls |-> NoCalls, fired |-> NoneFired]

resume ==
    /\ LET r == resume_Result(state) IN
         /\ state' = r.state
         /\ last' = [op |-> "resume", ret |-> "void", calls |-> r.calls, fired |-> r.fired]
    /\ run' = NoRun
    /\ UNCHANGED session
    /\ UNCHANGED <<platform, chunks, currentChunk, isChunked, progress,
                   currentWordIndex, totalWords, pending>>
    /\ UNCHANGED chunkVars
    /\ UNCHANGED extractVars
    /\ UNCHANGED auxVars

\* stop() purges the backend queue: no event follows for a stopped utterance
stop_Fired_Finished(st) == IF st # "Stopped" THEN Notify("finished", <<>>) ELSE NoneFired

\* stop() calls no callback, whatever the state st it is called in
stop_Fired(st) == NoneFired

stop ==
    /\ IF state # "Stopped"
       THEN /\ state' = "Stopped"
            /\ isChunked' = FALSE
            /\ chunks' = <<>>
            /\ currentChunk' = 0
            /\ pending' = 0
            /\ last' = [op |-> "stop", ret |-> "void",
                        calls |-> IF platform = "none" THEN NoCalls ELSE <<BackendCall("stop", <<>>)>>,
                        fired |-> stop_Fired(state)]
            /\ session' = NoSession
       ELSE /\ last' = [op |-> "stop", ret |-> "void", calls |-> NoCalls,
                        fired |-> stop_Fired(state)]
            /\ UNCHANGED <<state, isChunked, chunks, currentChunk, pending, session>>
    /\ run' = NoRun
    /\ UNCHANGED <<platform, progress, currentWordIndex, totalWords>>
    /\ UNCHANGED chunkVars
    /\ UNCHANGED extractVars
    /\ UNCHANGED auxVars

\* the backend delivers events only for utterances it holds
BackendActive == platform # "none" /\ pending > 0

\* the delegate's didStartSpeechUtterance
onSpeechStarted ==
    /\ BackendActive
    /\ state' = "Speaking"
    /\ last' = [op |-> "onSpeechStarted", ret |-> "void", calls |-> NoCalls,
                fired |-> Notify("started", <<>>)]
    /\ run' = NoRun
    /\ UNCHANGED session
    /\ UNCHANGED <<platform, chunks, currentChunk, isChunked, progress,
                   currentWordIndex, totalWords, pending>>
    /\ UNCHANGED chunkVars
    /\ UNCHANGED extractVars
    /\ UNCHANGED auxVars

HasNextChunk_OffByOne == isChunked /\ ToSizeT(currentChunk) < ToSizeT(Len(chunks))

\* "isChunked && currentChunk < chunks.size() - 1", in std::size_t arithmetic
HasNextChunk == isChunked /\ ToSizeT(currentChunk) < ToSizeT(Len(chunks) - 1)

NextChunkIndex_Stays(cur) == cur

\* "currentChunk++"
NextChunkIndex(cur) == cur + 1

\* the run goes on while the events are within the chunk count and the
\* backend takes every chunk it is handed
RunAfterFinished(advanced, r) ==
    IF run.n = 0 \/ run.ev >= run.n THEN NoRun
    ELSE IF advanced /\ r.calls # NoCalls /\ ~r.ret THEN NoRun
    ELSE [n |-> run.n, ev |-> run.ev + 1,
          fin |-> run.fin + Len(SelectSeq(r.fired, LAMBDA f : f.cb = "finished")),
          adv |-> run.adv + (IF advanced THEN 1 ELSE 0)]

onSpeechFinished ==
    /\ BackendActive
    /\ IF HasNextChunk
       THEN \E accept \in AcceptChoices :
              LET r == speakCurrentChunk(chunks, NextChunkIndex(currentChunk), isChunked, accept, state) IN
              /\ currentChunk' = NextChunkIndex(currentChunk)
              /\ state' = r.state
              /\ pending' = (pending - 1) + Accepted(r)
              /\ last' = [op |-> "onSpeechFinished", ret |-> "void", calls |-> r.calls, fired |-> r.fired]
              /\ run' = RunAfterFinished(TRUE, r)
              /\ session' = Submitted(session, r, currentChunk')
              /\ UNCHANGED <<chunks, isChunked>>
       ELSE LET r == [ret |-> FALSE, calls |-> NoCalls, fired |-> Notify("finished", <<>>)] IN
            /\ state' = "Stopped"
            /\ isChunked' = FALSE
            /\ chunks' = <<>>
            /\ currentChunk' = 0
            /\ pending' = pending - 1
            /\ last' = [op |-> "onSpeechFinished", ret |-> "void", calls |-> NoCalls, fired |-> r.fired]
            /\ run' = RunAfterFinished(FALSE, r)
            /\ session' = NoSession
    /\ UNCHANGED <<platform, progress, currentWordIndex, totalWords>>
    /\ UNCHANGED chunkVars
    /\ UNCHANGED extractVars
    /\ UNCHANGED auxVars

\* the reports <<fraction in percent, current word, total words>> the backend
\* event is tried with
ProgressReports == {<<0, 0, 1>>, <<50, 1, 2>>, <<100, 2, 2>>}

StoredProgress_Rescaled(fraction, cur, n) ==
    IF n > 0 THEN (100 * cur + fraction) \div n ELSE fraction

\* "this->progress = progress;": the backend's fraction (in percent) of the
\* utterance being spoken, whatever the chunk index cur and the number n of
\* stored chunks are
StoredProgress(fraction, cur, n) == fraction

onProgress(fraction, currentWord, total) ==
    /\ BackendActive
    /\ progress' = StoredProgress(fraction, currentChunk, Len(chunks))
    /\ currentWordIndex' = currentWord
    /\ totalWords' = total
    /\ last' = [op |-> "onProgress", ret |-> "void", calls |-> NoCalls,
                fired |-> Notify("progress", <<fraction, currentWord, total>>)]
    /\ run' = NoRun
    /\ UNCHANGED session
    /\ UNCHANGED <<platform, state, chunks, currentChunk, isChunked, pending>>
    /\ UNCHANGED chunkVars
    /\ UNCHANGED extractVars
    /\ UNCHANGED auxVars

----------------------------------------------------------------------------
(* stop() on one thread while onSpeechFinished() runs on another.  The       *)
(* source takes no lock, so the statements of the two interleave; each step  *)
(* below is one statement.                                                   *)

RaceIdle == race = NoRace

\* nothing is stored or being spoken: speakChunked begins a session on an
\* idle controller
NoStoredSession == ~isChunked /\ chunks = <<>> /\ pending = 0 /\ state = "Stopped"

\* what neither function writes
raceFrame == <<platform, progress, currentWordIndex, totalWords, run, session, settings>>

\* "if (state != SpeechState::Stopped)"
raceStopBegin ==
    /\ race.stop = "idle"
    /\ race' = [race EXCEPT !.stop = IF state # "Stopped" THEN "backend" ELSE "done"]
    /\ UNCHANGED <<state, isChunked, chunks, currentChunk, pending, last>>
    /\ UNCHANGED <<raceFrame, chunkVars, extractVars>>

\* stopMacOS() / stopWindows(): the backend drops what it holds
raceStopBackend ==
    /\ race.stop = "backend"
    /\ pending' = 0
    /\ last' = [op |-> "stop", ret |-> "void",
                calls |-> IF platform = "none" THEN NoCalls ELSE <<BackendCall("stop", <<>>)>>,
                fired |-> NoneFired]
    /\ race' = [race EXCEPT !.stop = "state"]
    /\ UNCHANGED <<state, isChunked, chunks, currentChunk>>
    /\ UNCHANGED <<raceFrame, chunkVars, extractVars>>

\* "state = SpeechState::Stopped;"
raceStopState ==
    /\ race.stop = "state"
    /\ state' = "Stopped"
    /\ race' = [race EXCEPT !.stop = "isChunked"]
    /\ UNCHANGED <<isChunked, chunks, currentChunk, pending, last>>
    /\ UNCHANGED <<raceFrame, chunkVars, extractVars>>

\* "isChunked = false;"
raceStopIsChunked ==
    /\ race.stop = "isChunked"
    /\ isChunked' = FALSE
    /\ race' = [race EXCEPT !.stop = "chunks"]
    /\ UNCHANGED <<state, chunks, currentChunk, pending, last>>
    /\ UNCHANGED <<raceFrame, chunkVars, extractVars>>

\* "chunks.clear();"
raceStopChunks ==
    /\ race.stop = "chunks"
    /\ chunks' = <<>>
    /\ race' = [race EXCEPT !.stop = "currentChunk"]
    /\ UNCHANGED <<state, isChunked, currentChunk, pending, last>>
    /\ UNCHANGED <<raceFrame, chunkVars, extractVars>>

\* "currentChunk = 0;", after which stop() returns
raceStopCurrentChunk ==
    /\ race.stop = "currentChunk"
    /\ currentChunk' = 0
    /\ race' = [race EXCEPT !.stop = "done"]
    /\ UNCHANGED <<state, isChunked, chunks, pending, last>>
    /\ UNCHANGED <<raceFrame, chunkVars, extractVars>>

\* the finished event of an utterance the backend holds is delivered:
\* "if (isChunked && currentChunk < chunks.size() - 1)"
raceFinBegin ==
    /\ race.fin = "idle"
    /\ BackendActive
    /\ pending' = pending - 1
    /\ race' = [race EXCEPT !.fin = IF HasNextChunk THEN "inc" ELSE "elseState"]
    /\ UNCHANGED <<state, isChunked, chunks, currentChunk, last>>
    /\ UNCHANGED <<raceFrame, chunkVars, extractVars>>

\* "currentChunk++;"
raceFinInc ==
    /\ race.fin = "inc"
    /\ currentChunk' = NextChunkIndex(currentChunk)
    /\ race' = [race EXCEPT !.fin = "guard"]
    /\ UNCHANGED <<state, isChunked, chunks, pending, last>>
    /\ UNCHANGED <<raceFrame, chunkVars, extractVars>>

\* speakCurrentChunk(): "if (isChunked && currentChunk < chunks.size())"
raceFinGuard ==
    /\ race.fin = "guard"
    /\ race' = [race EXCEPT !.fin = IF isChunked /\ ToSizeT(currentChunk) < Len(chunks)
                                     THEN "read" ELSE "done"]
    /\ UNCHANGED <<state, isChunked, chunks, currentChunk, pending, last>>
    /\ UNCHANGED <<raceFrame, chunkVars, extractVars>>

\* what "chunks[currentChunk]" may give once chunks.clear() has run between
\* the guard and the read: any text, or the thread dies
IndeterminateReads == {[pc |-> "speak", text |-> t] : t \in ChunkPool \cup {<<>>}}
                         \cup {[pc |-> "crashed", text |-> <<>>]}

\* "chunks[currentChunk]", the argument of speak
raceFinRead ==
    /\ race.fin = "read"
    /\ \E rd \in IF ToSizeT(currentChunk) < Len(chunks)
                  THEN {[pc |-> "speak", text |-> chunks[currentChunk + 1]]}
                  ELSE IndeterminateReads :
          race' = [race EXCEPT !.fin = rd.pc, !.text = rd.text]
    /\ UNCHANGED <<state, isChunked, chunks, currentChunk, pending, last>>
    /\ UNCHANGED <<raceFrame, chunkVars, extractVars>>

\* speak(text) of the chunk read; late records that the backend was handed
\* the chunk after stop() had returned
raceFinSpeak ==
    /\ race.fin = "speak"
    /\ \E accept \in AcceptChoices :
         LET r == speakResult(race.text, accept, state) IN
         /\ state' = r.state
         /\ pending' = pending + Accepted(r)
         /\ last' = [op |-> "onSpeechFinished", ret |-> "void", calls |-> r.calls,
                     fired |-> r.fired]
         /\ race' = [race EXCEPT !.fin = "done",
                                 !.late = race.stop = "done" /\ r.calls # NoCalls]
    /\ UNCHANGED <<isChunked, chunks, currentChunk>>
    /\ UNCHANGED <<raceFrame, chunkVars, extractVars>>

\* the else branch: "state = SpeechState::Stopped;"
raceFinElseState ==
    /\ race.fin = "elseState"
    /\ state' = "Stopped"
    /\ race' = [race EXCEPT !.fin = "elseIsChunked"]
    /\ UNCHANGED <<isChunked, chunks, currentChunk, pending, last>>
    /\ UNCHANGED <<raceFrame, chunkVars, extractVars>>

\* "isChunked = false;"
raceFinElseIsChunked ==
    /\ race.fin = "elseIsChunked"
    /\ isChunked' = FALSE
    /\ race' = [race EXCEPT !.fin = "elseChunks"]
    /\ UNCHANGED <<state, chunks, currentChunk, pending, last>>
    /\ UNCHANGED <<raceFrame, chunkVars, extractVars>>

\* "chunks.clear();"
raceFinElseChunks ==
    /\ race.fin = "elseChunks"
    /\ chunks' = <<>>
    /\ race' = [race EXCEPT !.fin = "elseCurrentChunk"]
    /\ UNCHANGED <<state, isChunked, currentChunk, pending, last>>
    /\ UNCHANGED <<raceFrame, chunkVars, extractVars>>

\* "currentChunk = 0;" and the finished callback
raceFinElseCurrentChunk ==
    /\ race.fin = "elseCurrentChunk"
    /\ currentChunk' = 0
    /\ last' = [op |-> "onSpeechFinished", ret |-> "void", calls |-> NoCalls,
                fired |-> Notify("finished", <<>>)]
    /\ race' = [race EXCEPT !.fin = "done"]
    /\ UNCHANGED <<state, isChunked, chunks, pending>>
    /\ UNCHANGED <<raceFrame, chunkVars, extractVars>>

----------------------------------------------------------------------------
(* TextToSpeech::Impl settings and voice *)

\* the settings a caller passes: the defaults, and one with every field changed
SettingsChoices ==
    {DefaultSettings, [rate |-> 100, pitch |-> 50, volume |-> 50, voiceId |-> "v1"]}

\* voice identifiers a caller passes; the backend knows some of them
VoiceIds == {"v1", "v2"}

\* setSettingsMacOS / setSettingsWindows store the settings again; no
\* backend on other platforms
setSettingsBackend == IF platform = "none" THEN NoCalls ELSE <<BackendCall("setSettings", <<>>)>>

setSettings(s) ==
    /\ settings' = s
    /\ last' = [op |-> "setSettings", ret |-> "void", calls |-> setSettingsBackend,
                fired |-> NoneFired, arg |-> s]
    /\ UNCHANGED <<platform, state, chunks, currentChunk, isChunked, progress,
                   currentWordIndex, totalWords, pending, run, session, race>>
    /\ UNCHANGED chunkVars
    /\ UNCHANGED extractVars

setVoice_Settings_Untouched(s, voiceId) == s

\* "settings.voiceId = voiceId;", done before the backend is asked
setVoice_Settings(s, voiceId) == [s EXCEPT !.voiceId = voiceId]

\* setVoiceMacOS / setVoiceWindows: whether the backend knows the voice
setVoice_Result(found) ==
    IF platform = "none" THEN [ret |-> FALSE, calls |-> NoCalls]
    ELSE [ret |-> found, calls |-> <<BackendCall("setVoice", <<>>)>>]

setVoice(voiceId, found) ==
    /\ settings' = setVoice_Settings(settings, voiceId)
    /\ LET r == setVoice_Result(found) IN
         last' = [op |-> "setVoice", ret |-> RetOf(r.ret), calls |-> r.calls,
                  fired |-> NoneFired, arg |-> voiceId]
    /\ UNCHANGED <<platform, state, chunks, currentChunk, isChunked, progress,
                   currentWordIndex, totalWords, pending, run, session, race>>
    /\ UNCHANGED chunkVars
    /\ UNCHANGED extractVars

----------------------------------------------------------------------------
(* PDFTextExtractor::Impl text cleaning.  The patterns are std::regex over   *)
(* char, so a \uXXXX escape stands for its low byte.                         *)

\* the class [\u200B-\u200D\u2060\uFEFF] of line 154: bytes 0B-0D, 60 and FF
IsZeroWidthClass(c) == c \in (11..13) \cup {96, 255}

\* the class of line 157, [\u00A0\u2000-\u200F ... \u3000]:
\* bytes A0, 00-0F, 28-2F, 5F-6F and 00
IsUnicodeSpaceClass(c) == c \in {160, 0} \cup (0..15) \cup (40..47) \cup (95..111)

\* regex_replace with \\\(|\\\)|\\\[|\\\]|\$\$|\$ by " "
RECURSIVE ReplaceDelimiters(_)
ReplaceDelimiters(s) ==
    IF s = <<>> THEN <<>>
    ELSE IF Len(s) >= 2 /\ s[1] = 92 /\ s[2] \in {40, 41, 91, 93}
         THEN <<32>> \o ReplaceDelimiters(SubSeq(s, 3, Len(s)))
    ELSE IF Len(s) >= 2 /\ s[1] = 36 /\ s[2] = 36
         THEN <<32>> \o ReplaceDelimiters(SubSeq(s, 3, Len(s)))
    ELSE IF s[1] = 36
         THEN <<32>> \o ReplaceDelimiters(Tail(s))
    ELSE <<Head(s)>> \o ReplaceDelimiters(Tail(s))

\* the std::map of lines 163-207, which a range-for visits in the order of
\* its keys: \alpha \approx \beta \cap \cup \delta \div \emptyset \epsilon
\* \equiv \exists \forall \frac{ \gamma \geq \in \infty \int \lambda
\* \leftarrow \leftrightarrow \leq \lim \mu \neq \notin \omega \phi \pi \pm
\* \propto \rightarrow \sigma \sqrt{ \subset \sum \supset \tau \theta \times
\* ^{ _{ }
LatexReplacements == <<
    [key |-> <<92, 97, 108, 112, 104, 97>>, value |-> <<32, 97, 108, 112, 104, 97, 32>>],
    [key |-> <<92, 97, 112, 112, 114, 111, 120>>, value |-> <<32, 97, 112, 112, 114, 111, 120, 105, 109, 97, 116, 101, 108, 121, 32, 101, 113, 117, 97, 108, 32, 116, 111, 32>>],
    [key |-> <<92, 98, 101, 116, 97>>, value |-> <<32, 98, 101, 116, 97, 32>>],
    [key |-> <<92, 99, 97, 112>>, value |-> <<32, 105, 110, 116, 101, 114, 115, 101, 99, 116, 105, 111, 110, 32>>],
    [key |-> <<92, 99, 117, 112>>, value |-> <<32, 117, 110, 105, 111, 110, 32>>],
    [key |-> <<92, 100, 101, 108, 116, 97>>, value |-> <<32, 100, 101, 108, 116, 97, 32>>],
    [key |-> <<92, 100, 105, 118>>, value |-> <<32, 100, 105, 118, 105, 100, 101, 100, 32, 98, 121, 32>>],
    [key |-> <<92, 101, 109, 112, 116, 121, 115, 101, 116>>, value |-> <<32, 101, 109, 112, 116, 121, 32, 115, 101, 116, 32>>],
    [key |-> <<92, 101, 112, 115, 105, 108, 111, 110>>, value |-> <<32, 101, 112, 115, 105, 108, 111, 110, 32>>],
    [key |-> <<92, 101, 113, 117, 105, 118>>, value |-> <<32, 101, 113, 117, 105, 118, 97, 108, 101, 110, 116, 32, 116, 111, 32>>],
    [key |-> <<92, 101, 120, 105, 115, 116, 115>>, value |-> <<32, 116, 104, 101, 114, 101, 32, 101, 120, 105, 115, 116, 115, 32>>],
    [key |-> <<92, 102, 111, 114, 97, 108, 108>>, value |-> <<32, 102, 111, 114, 32, 97, 108, 108, 32>>],
    [key |-> <<92, 102, 114, 97, 99, 123>>, value |-> <<32, 102, 114, 97, 99, 116, 105, 111, 110, 32>>],
    [key |-> <<92, 103, 97, 109, 109, 97>>, value |-> <<32, 103, 97, 109, 109, 97, 32>>],
    [key |-> <<92, 103, 101, 113>>, value |-> <<32, 103, 114, 101, 97, 116, 101, 114, 32, 116, 104, 97, 110, 32, 111, 114, 32, 101, 113, 117, 97, 108, 32, 116, 111, 32>>],
    [key |-> <<92, 105, 110>>, value |-> <<32, 105, 110, 32>>],
    [key |-> <<92, 105, 110, 102, 116, 121>>, value |-> <<32, 105, 110, 102, 105, 110, 105, 116, 121, 32>>],
    [key |-> <<92, 105, 110, 116>>, value |-> <<32, 105, 110, 116, 101, 103, 114, 97, 108, 32>>],
    [key |-> <<92, 108, 97, 109, 98, 100, 97>>, value |-> <<32, 108, 97, 109, 98, 100, 97, 32>>],
    [key |-> <<92, 108, 101, 102, 116, 97, 114, 114, 111, 119>>, value |-> <<32, 105, 109, 112, 108, 105, 101, 100, 32, 98, 121, 32>>],
    [key |-> <<92, 108, 101, 102, 116, 114, 105, 103, 104, 116, 97, 114, 114, 111, 119>>, value |-> <<32, 105, 102, 32, 97, 110, 100, 32, 111, 110, 108, 121, 32, 105, 102, 32>>],
    [key |-> <<92, 108, 101, 113>>, value |-> <<32, 108, 101, 115, 115, 32, 116, 104, 97, 110, 32, 111, 114, 32, 101, 113, 117, 97, 108, 32, 116, 111, 32>>],
    [key |-> <<92, 108, 105, 109>>, value |-> <<32, 108, 105, 109, 105, 116, 32>>],
    [key |-> <<92, 109, 117>>, value |-> <<32, 109, 117, 32>>],
    [key |-> <<92, 110, 101, 113>>, value |-> <<32, 110, 111, 116, 32, 101, 113, 117, 97, 108, 32, 116, 111, 32>>],
    [key |-> <<92, 110, 111, 116, 105, 110>>, value |-> <<32, 110, 111, 116, 32, 105, 110, 32>>],
    [key |-> <<92, 111, 109, 101, 103, 97>>, value |-> <<32, 111, 109, 101, 103, 97, 32>>],
    [key |-> <<92, 112, 104, 105>>, value |-> <<32, 112, 104, 105, 32>>],
    [key |-> <<92, 112, 105>>, value |-> <<32, 112, 105, 32>>],
    [key |-> <<92, 112, 109>>, value |-> <<32, 112, 108, 117, 115, 32, 111, 114, 32, 109, 105, 110, 117, 115, 32>>],
    [key |-> <<92, 112, 114, 111, 112, 116, 111>>, value |-> <<32, 112, 114, 111, 112, 111, 114, 116, 105, 111, 110, 97, 108, 32, 116, 111, 32>>],
    [key |-> <<92, 114, 105, 103, 104, 116, 97, 114, 114, 111, 119>>, value |-> <<32, 105, 109, 112, 108, 105, 101, 115, 32>>],
    [key |-> <<92, 115, 105, 103, 109, 97>>, value |-> <<32, 115, 105, 103, 109, 97, 32>>],
    [key |-> <<92, 115, 113, 114, 116, 123>>, value |-> <<32, 115, 113, 117, 97, 114, 101, 32, 114, 111, 111, 116, 32, 111, 102, 32>>],
    [key |-> <<92, 115, 117, 98, 115, 101, 116>>, value |-> <<32, 115, 117, 98, 115, 101, 116, 32, 111, 102, 32>>],
    [key |-> <<92, 115, 117, 109>>, value |-> <<32, 115, 117, 109, 32>>],
    [key |-> <<92, 115, 117, 112, 115, 101, 116>>, value |-> <<32, 115, 117, 112, 101, 114, 115, 101, 116, 32, 111, 102, 32>>],
    [key |-> <<92, 116, 97, 117>>, value |-> <<32, 116, 97, 117, 32>>],
    [key |-> <<92, 116, 104, 101, 116, 97>>, value |-> <<32, 116, 104, 101, 116, 97, 32>>],
    [key |-> <<92, 116, 105, 109, 101, 115>>, value |-> <<32, 116, 105, 109, 101, 115, 32>>],
    [key |-> <<94, 123>>, value |-> <<32, 116, 111, 32, 116, 104, 101, 32, 112, 111, 119, 101, 114, 32, 111, 102, 32>>],
    [key |-> <<95, 123>>, value |-> <<32, 115, 117, 98, 32>>],
    [key |-> <<125>>, value |-> <<32>>]
>>

\* what leaves cleanTextForTTS when std::regex throws std::regex_error; it
\* differs from every string
RegexError == <<-1>>

IsDigit(c) == c \in 48..57

IsWordChar(c) == c \in (48..57) \cup (65..90) \cup (97..122) \cup {95}

\* std::regex(key) throws for a '{' that does not open a {n,m} count: the keys
\* \frac{, \sqrt{, ^{ and _{
RegexCompiles(key) ==
    \A i \in 1..Len(key) :
        key[i] = 123 => (i > 1 /\ key[i - 1] = 92)

\* the ECMAScript reading of a key: \s, \d are classes, \b is the word
\* boundary, \f \n \r \t the control characters, \cX the control X, and a
\* backslash before any other letter stands for the letter itself
RECURSIVE RegexAtoms(_)
RegexAtoms(key) ==
    IF key = <<>> THEN <<>>
    ELSE IF key[1] = 92 /\ Len(key) >= 2
         THEN LET e == key[2] IN
              IF e = 115 THEN <<[kind |-> "class", set |-> {9, 10, 11, 12, 13, 32}]>> \o RegexAtoms(SubSeq(key, 3, Len(key)))
              ELSE IF e = 100 THEN <<[kind |-> "class", set |-> 48..57]>> \o RegexAtoms(SubSeq(key, 3, Len(key)))
              ELSE IF e = 98 THEN <<[kind |-> "boundary", set |-> {}]>> \o RegexAtoms(SubSeq(key, 3, Len(key)))
              ELSE IF e = 102 THEN <<[kind |-> "class", set |-> {12}]>> \o RegexAtoms(SubSeq(key, 3, Len(key)))
              ELSE IF e = 110 THEN <<[kind |-> "class", set |-> {10}]>> \o RegexAtoms(SubSeq(key, 3, Len(key)))
              ELSE IF e = 114 THEN <<[kind |-> "class", set |-> {13}]>> \o RegexAtoms(SubSeq(key, 3, Len(key)))
              ELSE IF e = 116 THEN <<[kind |-> "class", set |-> {9}]>> \o RegexAtoms(SubSeq(key, 3, Len(key)))
              ELSE IF e = 99 /\ Len(key) >= 3
                   THEN <<[kind |-> "class", set |-> {key[3] % 32}]>> \o RegexAtoms(SubSeq(key, 4, Len(key)))
              ELSE <<[kind |-> "class", set |-> {e}]>> \o RegexAtoms(SubSeq(key, 3, Len(key)))
    ELSE <<[kind |-> "class", set |-> {key[1]}]>> \o RegexAtoms(Tail(key))

AtWordBoundary(s, p) ==
    LET before == p > 1 /\ IsWordChar(s[p - 1])
        after == p <= Len(s) /\ IsWordChar(s[p])
    IN before # after

\* the position after a match of atoms[k..] at position p of s, or 0
RECURSIVE MatchEnd(_, _, _, _)
MatchEnd(s, p, atoms, k) ==
    IF k > Len(atoms) THEN p
    ELSE IF atoms[k].kind = "boundary"
         THEN IF AtWordBoundary(s, p) THEN MatchEnd(s, p, atoms, k + 1) ELSE 0
    ELSE IF p <= Len(s) /\ s[p] \in atoms[k].set
         THEN MatchEnd(s, p + 1, atoms, k + 1)
    ELSE 0

\* regex_replace(cleaned, regex(key), value) from position p on
RECURSIVE RegexReplaceFrom(_, _, _, _)
RegexReplaceFrom(s, p, atoms, value) ==
    IF p > Len(s) THEN <<>>
    ELSE LET e == MatchEnd(s, p, atoms, 1) IN
         IF e > p THEN value \o RegexReplaceFrom(s, e, atoms, value)
         ELSE <<s[p]>> \o RegexReplaceFrom(s, p + 1, atoms, value)

\* the loop of lines 209-211 from entry i on
RECURSIVE PDF_latexLoop(_, _)
PDF_latexLoop(cleaned, i) ==
    IF i > Len(LatexReplacements) THEN cleaned
    ELSE IF ~RegexCompiles(LatexReplacements[i].key) THEN RegexError
    ELSE PDF_latexLoop(
             RegexReplaceFrom(cleaned, 1, RegexAtoms(LatexReplacements[i].key),
                              LatexReplacements[i].value),
             i + 1)

PDF_cleanTextForTTS(text) ==
    LET c1 == RemoveControl(text)
        c2 == SelectSeq(c1, LAMBDA c : ~IsZeroWidthClass(c))
        c3 == [i \in 1..Len(c2) |-> IF IsUnicodeSpaceClass(c2[i]) THEN 32 ELSE c2[i]]
        c4 == ReplaceDelimiters(c3)
        c5 == PDF_latexLoop(c4, 1)
    IN IF c5 = RegexError THEN RegexError ELSE trim(CollapseSpaces(c5))

----------------------------------------------------------------------------
(* PDFTextExtractor::Impl word chunking *)

\* "while (iss >> word)": skip white space, then read up to the next white space
RECURSIVE splitIntoWords(_)
splitIntoWords(text) ==
    IF text = <<>> THEN <<>>
    ELSE IF IsSpace(Head(text)) THEN splitIntoWords(Tail(text))
    ELSE LET stops == {i \in 1..Len(text) : IsSpace(text[i])}
             n == IF stops = {} THEN Len(text)
                  ELSE (CHOOSE i \in stops : \A j \in stops : i <= j) - 1
         IN <<SubSeq(text, 1, n)>> \o splitIntoWords(SubSeq(text, n + 1, Len(text)))

RECURSIVE joinWords_NoSeparator(_)
joinWords_NoSeparator(words) ==
    IF words = <<>> THEN <<>>
    ELSE Head(words) \o joinWords_NoSeparator(Tail(words))

RECURSIVE joinWords(_)
joinWords(words) ==
    IF words = <<>> THEN <<>>
    ELSE IF Len(words) = 1 THEN Head(words)
    ELSE Head(words) \o <<32>> \o joinWords(Tail(words))

TextChunk_CountsSeparators(words, count) ==
    [text |-> joinWords(words), wordCount |-> IF count > 1 THEN 2 * count - 1 ELSE count]

TextChunk(words, count) == [text |-> joinWords(words), wordCount |-> count]

ChunkIsFull_Greater(currentWordCount, chunkSize) == currentWordCount > chunkSize

\* "if (currentWordCount >= chunkSize)"
ChunkIsFull(currentWordCount, chunkSize) == currentWordCount >= chunkSize

HasRemainder_Always(current) == TRUE

\* "if (!currentChunk.empty())"
HasRemainder(current) == current # <<>>

\* the for loop of chunkText over words[i..]
RECURSIVE chunkLoop(_, _, _, _, _, _)
chunkLoop(words, i, current, currentWordCount, out, chunkSize) ==
    IF i > Len(words)
    THEN [chunks |-> out, currentChunk |-> current, currentWordCount |-> currentWordCount]
    ELSE LET current2 == Append(current, words[i])
             count2 == currentWordCount + 1
         IN IF ChunkIsFull(count2, chunkSize)
            THEN chunkLoop(words, i + 1, <<>>, 0, Append(out, TextChunk(current2, count2)), chunkSize)
            ELSE chunkLoop(words, i + 1, current2, count2, out, chunkSize)

chunkText(text, chunkSize) ==
    LET r == chunkLoop(splitIntoWords(text), 1, <<>>, 0, <<>>, chunkSize) IN
    IF HasRemainder(r.currentChunk)
    THEN Append(r.chunks, TextChunk(r.currentChunk, r.currentWordCount))
    ELSE r.chunks

ChunkInputs == StringsOver(ChunkAlphabet, MaxInputLen)

\* one call of chunkText on the chosen arguments
callChunkText ==
    /\ ~chDone
    /\ chOut' = chunkText(chText, chSize)
    /\ chDone' = TRUE
    /\ UNCHANGED <<chText, chSize>>
    /\ UNCHANGED ttsVars
    /\ UNCHANGED extractVars
    /\ UNCHANGED auxVars

----------------------------------------------------------------------------
(* PDFTextExtractor::Impl extraction *)

Max(a, b) == IF a >= b THEN a ELSE b

Min(a, b) == IF a <= b THEN a ELSE b

\* a page of a document: "[page string]" is nil, "" or "a"
PageContents == {[hasString |-> FALSE, string |-> <<>>],
                 [hasString |-> TRUE, string |-> <<>>],
                 [hasString |-> TRUE, string |-> <<97>>]}

\* the documents a path may name: fileGood says std::ifstream opens it, loads
\* says PDFDocument initWithURL gives a document, whose pages follow
Documents ==
    {[fileGood |-> g, loads |-> FALSE, pages |-> <<>>] : g \in BOOLEAN}
    \cup {[fileGood |-> TRUE, loads |-> TRUE, pages |-> p] :
             p \in UNION {[1..k -> PageContents] : k \in 0..MaxPages}}

\* getPageCountMacOS / getPageCountWindows (a placeholder that returns 0)
getPageCount(doc) ==
    IF platform = "Windows" THEN 0
    ELSE IF ~doc.loads THEN 0
    ELSE Len(doc.pages)

\* "%d"
RECURSIVE Decimal(_)
Decimal(n) ==
    IF n < 10 THEN <<48 + n>> ELSE Decimal(n \div 10) \o <<48 + (n % 10)>>

\* "--- Page %d ---\n"
PageMarker(n) == <<45, 45, 45, 32, 80, 97, 103, 101, 32>> \o Decimal(n) \o <<32, 45, 45, 45, 10>>

\* the for loop of extractTextFromPDFMacOS from the 0-based index i on
RECURSIVE pagesText(_, _, _)
pagesText(pages, i, endIndex) ==
    IF i >= endIndex THEN <<>>
    ELSE (IF pages[i + 1].hasString
          THEN PageMarker(i + 1) \o pages[i + 1].string \o <<10, 10>>
          ELSE <<>>) \o pagesText(pages, i + 1, endIndex)

\* extractTextFromPDFMacOS / extractTextFromPDFWindows (a placeholder that
\* returns "")
extractTextFromPDF(doc, startPage, endPage) ==
    IF platform = "Windows" THEN <<>>
    ELSE IF ~doc.loads THEN <<>>
    ELSE pagesText(doc.pages, Max(0, startPage - 1), Min(Len(doc.pages), endPage))

\* "int chunkSize = 10000; // Default chunk size"
DefaultChunkSize == 10000

\* "ExtractionResult result;" leaves the int and bool members without a
\* value: n and b are what such a member may hold
IndeterminateValues == [n : {-1, 0, 3}, b : BOOLEAN]

PageRange(startPage, endPage, totalPages) ==
    [startPage |-> startPage, endPage |-> endPage, totalPages |-> totalPages]

\* "ExtractionResult result; result.success = false;"
NewResult(junk) ==
    [success |-> FALSE, errorMessage |-> "", fullText |-> <<>>, chunks |-> <<>>,
     pageRange |-> PageRange(junk.n, junk.n, junk.n), isChunked |-> junk.b]

DocCall(name, args) == [call |-> name, args |-> args]

NoResult == [thrown |-> "none"]

Returned(result, calls) == [outcome |-> "returned", result |-> result, calls |-> calls]

\* std::regex_error leaves the function; no ExtractionResult is returned
Threw(calls) == [outcome |-> "threw", result |-> [thrown |-> "std::regex_error"], calls |-> calls]

ClampStart_None(startPage) == startPage

ClampStart(startPage) == Max(1, startPage)

ClampEnd_None(pageCount, endPage) == endPage

ClampEnd(pageCount, endPage) == Min(pageCount, endPage)

\* lines 82-102: clean the text, then chunk it when it has more words than
\* the default chunk size
extractedResult(result, extractedText, calls) ==
    LET fullText == PDF_cleanTextForTTS(extractedText) IN
    IF fullText = RegexError THEN Threw(calls)
    ELSE LET wordCount == Len(splitIntoWords(fullText)) IN
         IF wordCount > DefaultChunkSize
         THEN Returned([result EXCEPT !.fullText = fullText,
                                      !.isChunked = TRUE,
                                      !.chunks = chunkText(fullText, DefaultChunkSize),
                                      !.success = TRUE], calls)
         ELSE Returned([result EXCEPT !.fullText = fullText,
                                      !.isChunked = FALSE,
                                      !.chunks = <<[text |-> fullText, wordCount |-> wordCount]>>,
                                      !.success = TRUE], calls)

extractTextFromPagesCall(doc, startPage, endPage, junk) ==
    LET result == NewResult(junk)
        pageCount == getPageCount(doc)
        counted == <<DocCall("getPageCount", <<>>)>>
    IN IF pageCount <= 0
       THEN Returned([result EXCEPT !.errorMessage = "Could not determine page count"], counted)
       ELSE LET s == ClampStart(startPage)
                e == ClampEnd(pageCount, endPage)
            IN IF s > e
               THEN Returned([result EXCEPT !.errorMessage = "Invalid page range"], counted)
               ELSE LET ranged == [result EXCEPT !.pageRange = PageRange(s, e, pageCount)]
                        extractedText == extractTextFromPDF(doc, s, e)
                        calls == Append(counted, DocCall("extractTextFromPDF", <<s, e>>))
                    IN IF extractedText = <<>>
                       THEN Returned([ranged EXCEPT !.errorMessage =
                                         "No text could be extracted from the specified pages"], calls)
                       ELSE extractedResult(ranged, extractedText, calls)

extractTextCall_ZeroBased(doc, junk) ==
    LET result == NewResult(junk)
        counted == <<DocCall("getPageCount", <<>>)>>
    IN IF ~doc.fileGood
       THEN Returned([result EXCEPT !.errorMessage = "File does not exist or cannot be opened"], <<>>)
       ELSE LET pageCount == getPageCount(doc) IN
            IF pageCount <= 0
            THEN Returned([result EXCEPT !.errorMessage =
                              "Could not determine page count or PDF is invalid"], counted)
            ELSE LET r == extractTextFromPagesCall(doc, 0, pageCount - 1, junk) IN
                 [r EXCEPT !.calls = counted \o r.calls]

\* the local result of extractText, page range included, is dropped when the
\* function returns what extractTextFromPages returns
extractTextCall(doc, junk) ==
    LET result == NewResult(junk)
        counted == <<DocCall("getPageCount", <<>>)>>
    IN IF ~doc.fileGood
       THEN Returned([result EXCEPT !.errorMessage = "File does not exist or cannot be opened"], <<>>)
       ELSE LET pageCount == getPageCount(doc) IN
            IF pageCount <= 0
            THEN Returned([result EXCEPT !.errorMessage =
                              "Could not determine page count or PDF is invalid"], counted)
            ELSE LET r == extractTextFromPagesCall(doc, 1, pageCount, junk) IN
                 [r EXCEPT !.calls = counted \o r.calls]

NoExtraction ==
    [op |-> "none", startPage |-> 0, endPage |-> 0, outcome |-> "none",
     result |-> NoResult, calls |-> <<>>]

Called(op, startPage, endPage, r) ==
    [op |-> op, startPage |-> startPage, endPage |-> endPage, outcome |-> r.outcome,
     result |-> r.result, calls |-> r.calls]

\* one call of extractText on the document
extractText ==
    /\ ex.op = "none"
    /\ \E junk \in IndeterminateValues :
          ex' = Called("extractText", 0, 0, extractTextCall(exDoc, junk))
    /\ UNCHANGED <<exDoc, cl>>
    /\ UNCHANGED ttsVars
    /\ UNCHANGED chunkVars
    /\ UNCHANGED auxVars

\* one call of extractTextFromPages on the document
extractTextFromPages(startPage, endPage) ==
    /\ ex.op = "none"
    /\ \E junk \in IndeterminateValues :
          ex' = Called("extractTextFromPages", startPage, endPage,
                       extractTextFromPagesCall(exDoc, startPage, endPage, junk))
    /\ UNCHANGED <<exDoc, cl>>
    /\ UNCHANGED ttsVars
    /\ UNCHANGED chunkVars
    /\ UNCHANGED auxVars

\* the bytes cleanTextForTTS() is tried with: '\', 'a', '$', ' ' and '\n'
CleanAlphabet == {92, 97, 36, 32, 10}

\* "\alpha + \beta = \pi"
AlphaBetaPi == <<92, 97, 108, 112, 104, 97, 32, 43, 32, 92, 98, 101, 116, 97,
                 32, 61, 32, 92, 112, 105>>

\* "\infty"
InftyCommand == <<92, 105, 110, 102, 116, 121>>

\* "\int"
IntCommand == <<92, 105, 110, 116>>

CleanInputs == StringsOver(CleanAlphabet, MaxCleanLen) \cup {AlphaBetaPi, InftyCommand, IntCommand}

NotCleaned(text) == [text |-> text, outcome |-> "none", out |-> <<>>]

\* one call of PDFTextExtractor::cleanTextForTTS on the chosen text
callCleanTextForTTS ==
    /\ cl.outcome = "none"
    /\ LET out == PDF_cleanTextForTTS(cl.text) IN
       cl' = IF out = RegexError
             THEN [cl EXCEPT !.outcome = "threw"]
             ELSE [cl EXCEPT !.outcome = "returned", !.out = out]
    /\ UNCHANGED <<exDoc, ex>>
    /\ UNCHANGED ttsVars
    /\ UNCHANGED chunkVars
    /\ UNCHANGED auxVars

InitTTS ==
    /\ platform \in Platforms
    /\ state = "Stopped"
    /\ chunks = <<>>
    /\ currentChunk = 0
    /\ isChunked = FALSE
    /\ progress = 0
    /\ currentWordIndex = 0
    /\ totalWords = 0
    /\ pending = 0
    /\ last = [op |-> "init", ret |-> "void", calls |-> NoCalls, fired |-> NoneFired]
    /\ run = NoRun
    /\ session = NoSession
    /\ settings = DefaultSettings
    /\ race = NoRace

NoDocument == [fileGood |-> FALSE, loads |-> FALSE, pages |-> <<>>]

InitExtractor ==
    /\ exDoc = NoDocument
    /\ ex = NoExtraction
    /\ cl = NotCleaned(<<>>)

InitChunker ==
    /\ chText = <<>>
    /\ chSize = 0
    /\ chOut = <<>>
    /\ chDone = FALSE

Init ==
    /\ InitTTS
    /\ InitChunker
    /\ InitExtractor

InitChunk ==
    /\ InitTTS
    /\ platform = "macOS"
    /\ chText \in ChunkInputs
    /\ chSize \in 0..MaxChunkSize
    /\ chOut = <<>>
    /\ chDone = FALSE
    /\ InitExtractor

NextChunk == callChunkText

SpecChunk == InitChunk /\ [][NextChunk]_vars

InitExtract ==
    /\ InitTTS
    /\ platform \in {"macOS", "Windows"}
    /\ InitChunker
    /\ exDoc \in Documents
    /\ ex = NoExtraction
    /\ cl = NotCleaned(<<>>)

NextExtract ==
    \/ extractText
    \/ \E startPage \in 0..(MaxPages + 1), endPage \in 0..(MaxPages + 1) :
          extractTextFromPages(startPage, endPage)

SpecExtract == InitExtract /\ [][NextExtract]_vars

InitClean ==
    /\ InitTTS
    /\ platform = "macOS"
    /\ InitChunker
    /\ exDoc = NoDocument
    /\ ex = NoExtraction
    /\ cl \in {NotCleaned(text) : text \in CleanInputs}

NextClean == callCleanTextForTTS

SpecClean == InitClean /\ [][NextClean]_vars

(* the controller with its settings operations *)

NextSettings ==
    \/ \E text \in ChunkPool : speak(text)
    \/ \E startChunk \in 0..2 : speakChunked(<<<<97>>, <<32>>>>, startChunk)
    \/ pause
    \/ resume
    \/ stop
    \/ onSpeechStarted
    \/ onSpeechFinished
    \/ onProgress(50, 1, 2)
    \/ \E s \in SettingsChoices : setSettings(s)
    \/ \E voiceId \in VoiceIds, found \in BOOLEAN : setVoice(voiceId, found)

SpecSettings == Init /\ [][NextSettings]_vars

(* a chunked session is set up by serialized calls and events; then one     *)
(* stop() and one finished event are handled statement by statement          *)

NextRace ==
    \/ RaceIdle /\ NoStoredSession /\
          \E chs \in ChunkSeqs, startChunk \in 0..MaxChunks : speakChunked(chs, startChunk)
    \/ RaceIdle /\ onSpeechFinished
    \/ raceStopBegin
    \/ raceStopBackend
    \/ raceStopState
    \/ raceStopIsChunked
    \/ raceStopChunks
    \/ raceStopCurrentChunk
    \/ raceFinBegin
    \/ raceFinInc
    \/ raceFinGuard
    \/ raceFinRead
    \/ raceFinSpeak
    \/ raceFinElseState
    \/ raceFinElseIsChunked
    \/ raceFinElseChunks
    \/ raceFinElseCurrentChunk

SpecRace == Init /\ [][NextRace]_vars

(* chunked sessions that run to their end: stop() is never called, and the  *)
(* backend delivers the finished event of every utterance it holds           *)

NextLive ==
    \/ NoStoredSession /\
          \E chs \in ChunkSeqs, startChunk \in 0..MaxChunks : speakChunked(chs, startChunk)
    \/ onSpeechStarted
    \/ onSpeechFinished
    \/ \E report \in ProgressReports : onProgress(report[1], report[2], report[3])

SpecLive == Init /\ [][NextLive]_vars /\ WF_vars(onSpeechFinished)

Next ==
    \/ \E text \in SpeakTexts : speak(text)
    \/ \E chs \in ChunkSeqs, startChunk \in -1..MaxChunks : speakChunked(chs, startChunk)
    \/ pause
    \/ resume
    \/ stop
    \/ onSpeechStarted
    \/ onSpeechFinished
    \/ \E report \in ProgressReports : onProgress(report[1], report[2], report[3])

Spec == Init /\ [][Next]_vars

----------------------------------------------------------------------------
(* Properties *)

\* C1: speakChunked(chunks, 0) on n >= 1 chunks the backend accepts, followed by
\* n consecutive finished events and nothing else, notifies the finished
\* callback exactly once, after the n-th event, advances the chunk index n-1
\* times and ends Stopped with no stored chunks and chunk index 0.
C1_ChunkedRunFinishesOnce ==
    run.n > 0 =>
        /\ run.ev < run.n =>
              /\ run.fin = 0
              /\ run.adv = run.ev
              /\ currentChunk = run.ev
              /\ state = "Speaking"
        /\ run.ev = run.n =>
              /\ run.fin = 1
              /\ last.fired = <<Fired("finished", <<>>)>>
              /\ run.adv = run.n - 1
              /\ state = "Stopped"
              /\ chunks = <<>>
              /\ ~isChunked
              /\ currentChunk = 0

C1_Witness == run.n = MaxChunks /\ run.ev = run.n /\ run.adv = run.n - 1

\* C2: whenever stop() has returned, the controller is Stopped with no stored
\* chunks, no chunked session and chunk index 0, also when it was called in
\* state Stopped.
C2_StopLeavesNoSession ==
    last.op = "stop" =>
        /\ state = "Stopped"
        /\ chunks = <<>>
        /\ ~isChunked
        /\ currentChunk = 0

\* C3: every transition into Stopped leaves the chunk sequence empty and the
\* chunk index, progress, currentWordIndex and totalWords at 0.
C3_StoppedResetsSession ==
    [][(state # "Stopped" /\ state' = "Stopped") =>
          /\ chunks' = <<>>
          /\ currentChunk' = 0
          /\ progress' = 0
          /\ currentWordIndex' = 0
          /\ totalWords' = 0]_vars

\* C4: pause() outside Speaking and resume() outside Paused change nothing of
\* the controller, call no backend function and notify no callback.
C4_PauseResumeNoOp ==
    [][((pause /\ state # "Speaking") \/ (resume /\ state # "Paused")) =>
          /\ UNCHANGED <<state, chunks, currentChunk, isChunked, progress,
                         currentWordIndex, totalWords, pending>>
          /\ last'.calls = NoCalls
          /\ last'.fired = NoneFired]_vars

C4_Witness ==
    /\ last.op = "pause"
    /\ last.calls = NoCalls
    /\ state = "Paused"
    /\ chunks # <<>>

\* C5: pause() in Speaking calls the backend pause once and leaves Paused,
\* resume() in Paused calls the backend resume once and leaves Speaking, and
\* neither touches the stored chunks or the chunk index.
C5_PauseResumeDelegate ==
    [][/\ (pause /\ state = "Speaking") =>
             /\ state' = "Paused"
             /\ last'.calls = <<BackendCall("pause", <<>>)>>
             /\ UNCHANGED <<chunks, currentChunk>>
       /\ (resume /\ state = "Paused") =>
             /\ state' = "Speaking"
             /\ last'.calls = <<BackendCall("resume", <<>>)>>
             /\ UNCHANGED <<chunks, currentChunk>>]_vars

C5_Witness ==
    /\ last.op = "resume"
    /\ last.calls = <<BackendCall("resume", <<>>)>>
    /\ state = "Speaking"
    /\ chunks # <<>>

\* C6: speakChunked(chunks, startChunk) with no chunks or with startChunk
\* outside 0..len-1 (negative included) returns false, calls no backend
\* function and leaves the state, the stored chunks and the chunk index alone.
C6_SpeakChunkedRejectsBadStart ==
    [][\A chs \in ChunkSeqs, startChunk \in -1..MaxChunks :
          (/\ last'.op = "speakChunked"
           /\ (chs = <<>> \/ startChunk < 0 \/ startChunk > Len(chs) - 1)
           /\ speakChunked(chs, startChunk)) =>
                /\ last'.ret = "false"
                /\ last'.calls = NoCalls
                /\ UNCHANGED <<state, chunks, currentChunk, isChunked>>]_vars

\* a speakChunked call with valid arguments always stores its chunks, so this
\* is the state after a call with invalid ones
C6_Witness ==
    /\ last.op = "speakChunked"
    /\ last.ret = "false"
    /\ chunks = <<>>
    /\ state = "Speaking"

\* C7 as stated: speak(text) returns false, with no backend call and no state
\* change, exactly when the text is empty after the TextNormalizer pipeline
\* (PDFTextExtractor's cleanTextForTTS); otherwise the normalized text is
\* handed to the backend.  Read on a platform whose backend takes every text.
C7_SpeakUsesNormalizer ==
    [][\A text \in SpeakTexts :
          (last'.op = "speak" /\ platform = "macOS" /\ speak(text)) =>
             LET n == PDF_cleanTextForTTS(text) IN
             /\ (n = <<>>) <=> (last'.ret = "false" /\ last'.calls = NoCalls /\ state' = state)
             /\ n # <<>> => last'.calls = <<BackendCall("speak", n)>>]_vars

\* C7 as amended: speak(text) returns false, with no backend call and no state
\* change, when the text is empty after the controller's own cleaning
\* (control characters removed, runs of white space collapsed, blanks
\* trimmed); otherwise that cleaned text is handed to the platform's speak
\* function, and where the backend takes every text the call returns true.
C7_SpeakUsesBasicCleaning ==
    [][\A text \in SpeakTexts :
          (last'.op = "speak" /\ speak(text)) =>
             LET c == TTS_cleanTextForTTS(text) IN
             /\ c = <<>> => (last'.ret = "false" /\ last'.calls = NoCalls /\ state' = state)
             /\ (c # <<>> /\ platform # "none") => last'.calls = <<BackendCall("speak", c)>>
             /\ platform = "macOS" => (last'.ret = "false" <=> c = <<>>)]_vars

\* a text made of the math delimiter '$' only has been handed to the backend
C7_Witness ==
    /\ last.op = "speak"
    /\ last.ret = "true"
    /\ last.calls = <<BackendCall("speak", <<36>>)>>

WordsOf(text) == Len(splitIntoWords(text))

\* C8: for chunkSize > 0 every chunk of chunkText but the last has wordCount =
\* chunkSize, the last has 1..chunkSize words, and no chunk is empty.
C8_ChunkSizes ==
    (chDone /\ chSize > 0) =>
        \A i \in 1..Len(chOut) :
            /\ i < Len(chOut) => chOut[i].wordCount = chSize
            /\ chOut[i].wordCount \in 1..chSize
            /\ chOut[i].text # <<>>

C8_Witness ==
    /\ chDone
    /\ chSize = 2
    /\ Len(chOut) = 2
    /\ chOut[1].wordCount = 2
    /\ chOut[2].wordCount = 1

RECURSIVE JoinChunkTexts(_)
JoinChunkTexts(cs) ==
    IF cs = <<>> THEN <<>>
    ELSE IF Len(cs) = 1 THEN cs[1].text
    ELSE cs[1].text \o <<32>> \o JoinChunkTexts(Tail(cs))

RECURSIVE WordsOfChunks(_)
WordsOfChunks(cs) ==
    IF cs = <<>> THEN <<>>
    ELSE splitIntoWords(cs[1].text) \o WordsOfChunks(Tail(cs))

\* the words of the text, read off the text itself: the maximal runs of
\* bytes that are not white space
WordSpans(text) ==
    {<<a, b>> \in (1..Len(text)) \X (1..Len(text)) :
        /\ a <= b
        /\ \A i \in a..b : ~IsSpace(text[i])
        /\ (a = 1 \/ IsSpace(text[a - 1]))
        /\ (b = Len(text) \/ IsSpace(text[b + 1]))}

\* words separated by exactly one ' ', no other white space, none at the ends
SingleSpaced(text) ==
    /\ \A i \in 1..Len(text) : IsSpace(text[i]) => text[i] = 32
    /\ text # <<>> => (text[1] # 32 /\ text[Len(text)] # 32)
    /\ \A i \in 1..(Len(text) - 1) : ~(text[i] = 32 /\ text[i + 1] = 32)

WholeWords(cs, text) ==
    LET ws == WordsOfChunks(cs) IN
    /\ Len(ws) = Cardinality(WordSpans(text))
    /\ \A k \in 1..Len(ws) :
          \E sp \in WordSpans(text) :
             /\ Cardinality({q \in WordSpans(text) : q[1] <= sp[1]}) = k
             /\ ws[k] = SubSeq(text, sp[1], sp[2])

\* C9 as stated: for chunkSize > 0 the chunk texts joined by single spaces
\* are exactly the text, and the chunks hold whole words of it.
C9_JoinReconstructsText ==
    (chDone /\ chSize > 0) =>
        /\ JoinChunkTexts(chOut) = chText
        /\ WholeWords(chOut, chText)

\* C9 as amended: the chunks hold the words of the text, whole and in order;
\* joined by single spaces they give back the text when its words are
\* separated by single spaces and it has no other white space.
C9_JoinReconstructsSingleSpaced ==
    (chDone /\ chSize > 0) =>
        /\ WholeWords(chOut, chText)
        /\ \A i \in 1..Len(chOut) : SingleSpaced(chOut[i].text)
        /\ SingleSpaced(chText) => JoinChunkTexts(chOut) = chText

C9_Witness ==
    /\ chDone
    /\ chSize = 2
    /\ Len(chOut) = 2
    /\ SingleSpaced(chText)
    /\ JoinChunkTexts(chOut) = chText

CeilDiv(n, d) == (n + d - 1) \div d

\* C10: chunkText gives no chunk for an empty text, one chunk for 1..chunkSize
\* words and ceil(n / chunkSize) chunks for n words.
C10_ChunkCount ==
    chDone =>
        /\ chText = <<>> => chOut = <<>>
        /\ chSize > 0 =>
              /\ Len(chOut) = CeilDiv(WordsOf(chText), chSize)
              /\ WordsOf(chText) \in 1..chSize => Len(chOut) = 1

C10_Witness ==
    /\ chDone
    /\ chSize = 3
    /\ WordsOf(chText) = chSize
    /\ Len(chOut) = 1

\* the page count the document backend reports for the document
ReportedPages == getPageCount(exDoc)

\* the text the document backend holds for the clamped range of the call
RangeText ==
    extractTextFromPDF(exDoc, Max(1, ex.startPage), Min(ReportedPages, ex.endPage))

\* the call was extractTextFromPages on a document of N > 0 pages, with a
\* clamped range that is not empty and holds text
RangedCallOnText ==
    /\ ex.op = "extractTextFromPages"
    /\ ReportedPages > 0
    /\ Max(1, ex.startPage) <= Min(ReportedPages, ex.endPage)
    /\ RangeText # <<>>

AsksBackendFor(s, e) ==
    ex.calls = <<DocCall("getPageCount", <<>>), DocCall("extractTextFromPDF", <<s, e>>)>>

\* C11: every successful extractTextFromPages(path, s, e) on a document of
\* N > 0 pages reports pageRange = {max(1, s), min(N, e), N}, with
\* 1 <= startPage <= endPage <= totalPages, after asking the backend for
\* exactly that range; and s = 0, e beyond N on a document of N pages of text
\* gives such a result, with pageRange = {1, N, N}.
C11_SuccessReportsClampedRange ==
    /\ (ex.op = "extractTextFromPages" /\ ex.outcome = "returned" /\ ex.result.success) =>
          /\ ReportedPages > 0
          /\ ex.result.pageRange =
                PageRange(Max(1, ex.startPage), Min(ReportedPages, ex.endPage), ReportedPages)
          /\ 1 <= ex.result.pageRange.startPage
          /\ ex.result.pageRange.startPage <= ex.result.pageRange.endPage
          /\ ex.result.pageRange.endPage <= ex.result.pageRange.totalPages
          /\ AsksBackendFor(ex.result.pageRange.startPage, ex.result.pageRange.endPage)
    /\ (RangedCallOnText /\ ex.startPage = 0 /\ ex.endPage > ReportedPages) =>
          /\ ex.outcome = "returned"
          /\ ex.result.success
          /\ ex.result.pageRange = PageRange(1, ReportedPages, ReportedPages)

\* C12 as stated: extractTextFromPages fails with "Invalid page range",
\* without asking the backend for text, whenever the clamped start exceeds the
\* clamped end, whatever page count the backend reports.
C12_InvalidRangeAnyPageCount ==
    (/\ ex.op = "extractTextFromPages"
     /\ Max(1, ex.startPage) > Min(ReportedPages, ex.endPage)) =>
        /\ ex.outcome = "returned"
        /\ ~ex.result.success
        /\ ex.result.errorMessage = "Invalid page range"
        /\ ex.calls = <<DocCall("getPageCount", <<>>)>>

\* C12 as amended: on a document whose reported page count is positive,
\* extractTextFromPages fails with "Invalid page range", without asking the
\* backend for text, whenever the clamped start exceeds the clamped end; so
\* does a start page above the end page on any such document.
C12_InvalidRangePositivePageCount ==
    (/\ ex.op = "extractTextFromPages"
     /\ ReportedPages > 0
     /\ Max(1, ex.startPage) > Min(ReportedPages, ex.endPage)) =>
        /\ ex.outcome = "returned"
        /\ ~ex.result.success
        /\ ex.result.errorMessage = "Invalid page range"
        /\ ex.calls = <<DocCall("getPageCount", <<>>)>>

\* a start page above the end page, both within the document
C12_Witness ==
    /\ ex.op = "extractTextFromPages"
    /\ ReportedPages = MaxPages
    /\ ex.startPage = 2
    /\ ex.endPage = 1
    /\ ex.outcome = "returned"
    /\ ex.result.errorMessage = "Invalid page range"

\* C13: an extraction that reaches text gives a result with isChunked true
\* exactly when the normalized text has more words than the threshold: up to
\* the threshold a single chunk, for threshold + 1 words two chunks of
\* threshold and 1 words.
C13_ChunkedAboveThreshold ==
    RangedCallOnText =>
        /\ ex.outcome = "returned"
        /\ ex.result.success
        /\ ex.result.isChunked <=> WordsOf(ex.result.fullText) > DefaultChunkSize
        /\ ~ex.result.isChunked => Len(ex.result.chunks) = 1
        /\ WordsOf(ex.result.fullText) = DefaultChunkSize + 1 =>
              /\ Len(ex.result.chunks) = 2
              /\ ex.result.chunks[1].wordCount = DefaultChunkSize
              /\ ex.result.chunks[2].wordCount = 1

\* C14: every ExtractionResult has success = true and no error message, or
\* success = false, an error message and every other field at its default:
\* no text, no chunks, page range {0, 0, 0}, isChunked false.
C14_FailureLeavesDefaults ==
    (ex.op # "none" /\ ex.outcome = "returned") =>
        \/ ex.result.success /\ ex.result.errorMessage = ""
        \/ /\ ~ex.result.success
           /\ ex.result.errorMessage # ""
           /\ ex.result.fullText = <<>>
           /\ ex.result.chunks = <<>>
           /\ ex.result.pageRange = PageRange(0, 0, 0)
           /\ ~ex.result.isChunked

RECURSIVE SumWordCounts(_)
SumWordCounts(cs) ==
    IF cs = <<>> THEN 0 ELSE cs[1].wordCount + SumWordCounts(Tail(cs))

Delivered(r) == [outcome |-> r.outcome, result |-> r.result]

\* C16: extractText fails with the invalid-document error, without asking the
\* backend for text, when the reported page count is <= 0; when the count N
\* is positive it delivers what extractTextFromPages(path, 1, N) delivers.
C16_ExtractTextDelegates ==
    ex.op = "extractText" =>
        /\ ReportedPages <= 0 =>
              /\ ex.outcome = "returned"
              /\ ~ex.result.success
              /\ ex.result.errorMessage \in
                    {"File does not exist or cannot be opened",
                     "Could not determine page count or PDF is invalid"}
              /\ \A i \in 1..Len(ex.calls) : ex.calls[i].call # "extractTextFromPDF"
        /\ ReportedPages > 0 =>
              \E junk \in IndeterminateValues :
                  Delivered(ex) =
                     Delivered(extractTextFromPagesCall(exDoc, 1, ReportedPages, junk))

\* extractText on a document of MaxPages pages has asked the backend for all
\* of them
C16_Witness ==
    /\ ex.op = "extractText"
    /\ ReportedPages = MaxPages
    /\ ex.calls # <<>>
    /\ ex.calls[Len(ex.calls)] = DocCall("extractTextFromPDF", <<1, MaxPages>>)

\* C17: cleanTextForTTS gives a text for every text, and cleaning that text
\* again gives the same text.
C17_NormalizeIdempotent ==
    cl.outcome # "none" =>
        /\ cl.outcome = "returned"
        /\ PDF_cleanTextForTTS(cl.out) = cl.out

\* C18: cleanTextForTTS of "\alpha + \beta = \pi" is "alpha + beta = pi".
C18_AlphaBetaPiSpoken ==
    (cl.text = AlphaBetaPi /\ cl.outcome # "none") =>
        /\ cl.outcome = "returned"
        /\ cl.out = <<97, 108, 112, 104, 97, 32, 43, 32, 98, 101, 116, 97, 32, 61,
                      32, 112, 105>>

\* C19: a finished event that arrives in a chunked session whose current
\* chunk is not the last one advances the chunk index by one, hands the next
\* chunk to the backend, leaves the state Speaking and notifies no callback.
C19_IntermediateFinishedSilent ==
    [][(/\ last'.op = "onSpeechFinished"
        /\ onSpeechFinished
        /\ isChunked
        /\ currentChunk < Len(chunks) - 1) =>
            /\ currentChunk' = currentChunk + 1
            /\ Len(last'.calls) = 1
            /\ last'.calls[1].call = "speak"
            /\ state' = "Speaking"
            /\ last'.fired = NoneFired]_vars

\* the chunks handed to the backend are those of the indexes start, start + 1,
\* ... in this order, the backend holds at most one of them, and the chunk
\* index is that of the last chunk handed over or beyond
SessionInOrder ==
    /\ \A k \in 1..Len(session.sub) : session.sub[k] = session.start + (k - 1)
    /\ Len(session.sub) <= Len(chunks) - session.start
    /\ pending <= 1
    /\ isChunked
    /\ currentChunk >= session.start + Len(session.sub) - 1

\* C20: in a chunked session that speakChunked(chunks, s) began on an idle
\* backend, with no other speak call, the chunks are handed to the backend
\* one at a time, in the order s, s + 1, ..., each at most once, a further
\* one only in the handling of a finished event, and the chunk index never
\* goes down.
C20_ChunksInOrder ==
    [][session'.on =>
          /\ SessionInOrder'
          /\ (session.on /\ last'.op # "speakChunked") =>
                /\ currentChunk' >= currentChunk
                /\ Len(session'.sub) > Len(session.sub) =>
                      (last'.op = "onSpeechFinished" /\ pending = 1)]_vars

\* every chunk of a session of MaxChunks chunks has been handed over
C20_Witness ==
    /\ session.on
    /\ session.start = 0
    /\ Len(session.sub) = MaxChunks
    /\ currentChunk = MaxChunks - 1
    /\ last.op = "onSpeechFinished"


\* C21: speak returns true exactly when the backend took the utterance, and
\* then the controller is Speaking and "started" was fired; when the backend
\* refuses it, or the platform has no backend, speak returns false, fires
\* nothing and leaves the state and the backend's queue as they were.
C21_SpeakFollowsBackend ==
    [][last'.op = "speak" =>
         /\ last'.ret = "true" <=> (last'.calls # NoCalls /\ pending' = pending + 1)
         /\ last'.ret = "true" =>
               state' = "Speaking" /\ last'.fired = Notify("started", <<>>)
         /\ last'.ret = "false" =>
               state' = state /\ pending' = pending /\ last'.fired = NoneFired
         /\ platform = "none" => last'.ret = "false" /\ last'.calls = NoCalls
         /\ \A i \in 1..Len(last'.calls) :
               /\ last'.calls[i].call = "speak"
               /\ last'.calls[i].text # <<>>
               /\ TTS_cleanTextForTTS(last'.calls[i].text) = last'.calls[i].text
         /\ Len(last'.calls) <= 1]_vars

\* the backend refused an utterance while the controller was Paused
C21_Witness ==
    /\ last.op = "speak"
    /\ last.ret = "false"
    /\ last.calls # NoCalls
    /\ state = "Paused"


\* C22: a progress event stores its fraction, word index and word count as
\* the values the getters return, fires the progress callback once with the
\* same three values, and leaves the state, the chunk index, the stored
\* chunks and the chunked flag alone; the stored fraction is the event's,
\* not rescaled by the position in the chunk sequence.
C22_ProgressStoredAsReported ==
    [][last'.op = "onProgress" =>
         /\ \E rep \in ProgressReports :
               /\ last'.fired = <<Fired("progress", rep)>>
               /\ <<progress', currentWordIndex', totalWords'>> = rep
         /\ last'.calls = NoCalls
         /\ UNCHANGED <<state, chunks, currentChunk, isChunked, pending>>]_vars

\* half of the second of two chunks has been spoken
C22_Witness ==
    /\ last.op = "onProgress"
    /\ isChunked
    /\ Len(chunks) = 2
    /\ currentChunk = 1
    /\ progress = 50
    /\ last.fired = <<Fired("progress", <<50, 1, 2>>)>>


\* C23 as stated: only setSettings changes the stored settings; every other
\* operation, setVoice included, leaves what getSettings returns alone.
C23_OnlySetSettingsWrites ==
    [][/\ last'.op = "setSettings" => settings' = last'.arg
       /\ last'.op # "setSettings" => settings' = settings]_vars

\* C23: the stored settings change only in setSettings and setVoice.
\* setSettings(s) stores s; setVoice(id) overwrites the voiceId field with id,
\* whether or not the backend knows the voice, and keeps rate, pitch and
\* volume; speak, speakChunked, pause, resume, stop and the backend events
\* leave the settings as they were.
C23_SettingsWrittenBySetSettingsAndSetVoice ==
    [][/\ last'.op = "setSettings" => settings' = last'.arg
       /\ last'.op = "setVoice" =>
             /\ settings'.voiceId = last'.arg
             /\ settings'.rate = settings.rate
             /\ settings'.pitch = settings.pitch
             /\ settings'.volume = settings.volume
       /\ last'.op \notin {"setSettings", "setVoice"} => settings' = settings]_vars

\* setSettings stored non-default settings, a refused setVoice replaced the
\* voice, and a chunk of a session has since finished
C23_Witness ==
    /\ last.op = "onSpeechFinished"
    /\ settings = [rate |-> 100, pitch |-> 50, volume |-> 50, voiceId |-> "v2"]


\* the calls of the request to the backend's text extraction
TextCalls == SelectSeq(ex.calls, LAMBDA c : c.call = "extractTextFromPDF")

\* the range the request asks for: extractText asks for pages 1 to N
RequestedStart == IF ex.op = "extractText" THEN 1 ELSE ex.startPage

RequestedEnd == IF ex.op = "extractText" THEN ReportedPages ELSE ex.endPage

\* C24: an extraction request asks the document backend for text at most
\* once; not at all when the file cannot be opened, when the page count is
\* <= 0 or when the clamped range is empty; and when the one call gives no
\* text the request returns a failure with the matching message, having
\* made no second call.
C24_OneBackendCallNoRetry ==
    ex.op # "none" =>
        /\ Len(TextCalls) <= 1
        /\ (ReportedPages <= 0 \/ Max(1, RequestedStart) > Min(ReportedPages, RequestedEnd)) =>
              /\ TextCalls = <<>>
              /\ ex.outcome = "returned"
              /\ ~ex.result.success
              /\ ex.result.errorMessage \in
                    {"File does not exist or cannot be opened",
                     "Could not determine page count or PDF is invalid",
                     "Could not determine page count", "Invalid page range"}
        /\ \A i \in 1..Len(TextCalls) :
              /\ TextCalls[i].args =
                    <<Max(1, RequestedStart), Min(ReportedPages, RequestedEnd)>>
              /\ extractTextFromPDF(exDoc, TextCalls[i].args[1], TextCalls[i].args[2]) = <<>> =>
                    /\ ex.outcome = "returned"
                    /\ ~ex.result.success
                    /\ ex.result.errorMessage =
                          "No text could be extracted from the specified pages"

\* the backend was asked once for a range that holds no text
C24_Witness ==
    /\ ex.op = "extractTextFromPages"
    /\ ReportedPages = MaxPages
    /\ Len(TextCalls) = 1
    /\ ex.outcome = "returned"
    /\ ex.result.errorMessage = "No text could be extracted from the specified pages"


\* C25: the LaTeX rules are literal replacements applied in the order of the
\* table, "\int" and "\infty" before "\in": cleanTextForTTS of "\infty" is
\* "infinity" and of "\int" is "integral".
C25_InftyAndIntSpoken ==
    /\ (cl.text = InftyCommand /\ cl.outcome # "none") =>
          /\ cl.outcome = "returned"
          /\ cl.out = <<105, 110, 102, 105, 110, 105, 116, 121>>
    /\ (cl.text = IntCommand /\ cl.outcome # "none") =>
          /\ cl.outcome = "returned"
          /\ cl.out = <<105, 110, 116, 101, 103, 114, 97, 108>>


\* wordCount is the number of words of the text, and the text is its words
\* joined by single spaces
WellFormedChunk(c) ==
    /\ c.wordCount = WordsOf(c.text)
    /\ SingleSpaced(c.text)

RaceOver == race.stop = "done" /\ race.fin = "done"

\* C27: when a finished event is handled while stop() runs on another
\* thread, then once both have completed the controller is Stopped with no
\* stored chunks and chunk index 0, and no chunk was handed to the backend
\* after stop() had returned.
C27_StopWinsRace ==
    RaceOver =>
        /\ state = "Stopped"
        /\ chunks = <<>>
        /\ currentChunk = 0
        /\ ~isChunked
        /\ ~race.late


\* C28: while a chunked session is stored (isChunked), under serialized
\* calls and events, the stored chunk sequence is not empty and currentChunk
\* is an index into it; so "chunks.size() - 1" never wraps around in
\* onSpeechFinished and speakCurrentChunk's lookup is in range.
C28_ChunkIndexInRange ==
    isChunked =>
        /\ chunks # <<>>
        /\ 0 <= currentChunk
        /\ currentChunk < Len(chunks)
        /\ ToSizeT(Len(chunks) - 1) = Len(chunks) - 1

\* the session has advanced to its last chunk
C28_Witness ==
    /\ isChunked
    /\ Len(chunks) = MaxChunks
    /\ currentChunk = MaxChunks - 1
    /\ last.op = "onSpeechFinished"
    /\ last.calls # NoCalls


\* C29: a speakChunked call that returns false leaves no session behind:
\* the stored chunks, the chunk index and the chunked flag are as they were
\* before the call.
C29_FailedSpeakChunkedStoresNothing ==
    [][(last'.op = "speakChunked" /\ last'.ret = "false") =>
          UNCHANGED <<chunks, currentChunk, isChunked>>]_vars


\* C30: when stop() is never called and every utterance the backend took is
\* followed by its finished event, a session begun by a successful
\* speakChunked leads to the state Stopped with the finished callback fired,
\* whatever the later chunks hold.
C30_SessionEnds ==
    (last.op = "speakChunked" /\ last.ret = "true")
        ~> (state = "Stopped" /\ last.op = "onSpeechFinished"
            /\ last.fired = Notify("finished", <<>>))


\* C31: while the state is Paused only resume() and stop() change it; speak,
\* speakChunked, pause and the backend's started, finished and progress
\* events leave it Paused.
C31_PausedUntilResumeOrStop ==
    [][(state = "Paused" /\ last'.op \notin {"resume", "stop"}) =>
          state' = "Paused"]_vars


\* the finished notifications among those of the last operation
FinishedFired == SelectSeq(last.fired, LAMBDA f : f.cb = "finished")

\* C32: the finished callback is invoked only in the handling of a backend
\* finished event that ends the session, once, leaving the controller
\* Stopped with no stored session; stop() invokes no callback, and after a
\* stop() that cancelled a session the backend holds no utterance, so no
\* finished callback follows without a new speak call.
C32_FinishedOnlyFromFinalEvent ==
    [][/\ FinishedFired' # <<>> =>
             /\ last'.op = "onSpeechFinished"
             /\ last'.fired = Notify("finished", <<>>)
             /\ last'.calls = NoCalls
             /\ ~HasNextChunk
             /\ state' = "Stopped"
             /\ ~isChunked'
             /\ chunks' = <<>>
             /\ currentChunk' = 0
       /\ last'.op = "stop" =>
             /\ last'.fired = NoneFired
             /\ state # "Stopped" => pending' = 0
             /\ state' = "Stopped"]_vars

\* stop() has cancelled a session in its first chunk
C32_Witness ==
    /\ last.op = "stop"
    /\ last.calls # NoCalls
    /\ last.fired = NoneFired
    /\ state = "Stopped"
    /\ pending = 0
    /\ ~isChunked


\* the request asked the backend for text and was given some
BackendGaveText ==
    /\ ex.op # "none"
    /\ TextCalls # <<>>
    /\ extractTextFromPDF(exDoc, TextCalls[1].args[1], TextCalls[1].args[2]) # <<>>

====
